---------------------------- MODULE Spec2Model ----------------------------
(***************************************************************************)
(* A model of the LZ77 / Elias-delta codec of this repository:             *)
(*   Elias.py    gamma_encode, delta_encode, delta_decode_stream           *)
(*   Encoder.py  find_longest_match, encode, bits_to_bytes, encoder        *)
(*   Decoder.py  read_byte, bytes_to_bits, decode_token, decoder           *)
(*   Huffman.py  build_huffman_tree_from_freqs, generate_huffman_codes,    *)
(*               encode_tree_structure, decode_tree_structure              *)
(*   Main.py     the batch driver: encoder, then decoder, then compare     *)
(* Python indices are 0-based and are kept 0-based in the model; a         *)
(* sequence element at Python index k is s[k + 1].                         *)
(***************************************************************************)
EXTENDS Integers, Sequences, FiniteSets, TLC

VARIABLES
    \* Main.py / Encoder.encoder / Decoder.decoder
    data,          \* the input file's bytes
    pc,            \* position of the driver
    i,             \* encoder: current position in data
    all_tokens,    \* encoder: the bit lists of the tokens written so far
    container,     \* the compressed file
    tampered,      \* whether the compressed file was altered after encoding
    bits,          \* decoder: the bit stream
    bit_index,     \* decoder: cursor in bits
    token_count,   \* decoder: token count read from the header
    token_num,     \* decoder: loop counter
    output_data,   \* decoder: bytes reconstructed so far
    dec_error,     \* decoder: which error made the loop break ("none" if none)
    out_file,      \* the decompressed file
    verdict,       \* Main.py: result of files_are_equal
    \* Elias.py on its own
    e_pc, e_n, e_stream, e_index, e_cut, e_res,
    \* Encoder.find_longest_match on its own
    m_data, m_i, m_window, m_lookahead, m_res,
    \* Huffman.py on its own
    h_freqs,       \* the frequency table: (byte, freq) in insertion order
    h_pc, h_tree, h_codes, h_bits, h_tree2

pipeVars == <<data, pc, i, all_tokens, container, tampered, bits, bit_index,
              token_count, token_num, output_data, dec_error, out_file, verdict>>
eliasVars == <<e_pc, e_n, e_stream, e_index, e_cut, e_res>>
matchVars == <<m_data, m_i, m_window, m_lookahead, m_res>>
huffVars == <<h_freqs, h_pc, h_tree, h_codes, h_bits, h_tree2>>
vars == <<pipeVars, eliasVars, matchVars, huffVars>>

(***************************************************************************)
(* Bounds of the model.                                                    *)
(***************************************************************************)
\* longest input buffer
MaxLen == 5
\* largest integer given to delta_encode on its own
MaxN == 40
\* longest run of bits placed before / after an Elias code
MaxPad == 2
\* largest integer a decoder step of an altered container may decode
MaxVal == 24
\* scaled window / lookahead sizes tried by the match finder on its own
MaxCfg == 3
\* largest frequency in a frequency table, and most entries of a table
MaxFreq == 2
MaxSyms == 3

\* byte values the buffers are drawn from
ByteVals == {0, 65, 66}

(***************************************************************************)
(* Program constants (Encoder.py).                                         *)
(***************************************************************************)
WINDOW_SIZE == 4096
LOOKAHEAD_SIZE == 1000
MIN_MATCH_LENGTH == 3

(***************************************************************************)
(* Helpers for Python lists.                                               *)
(***************************************************************************)
Min(a, b) == IF a < b THEN a ELSE b
Max(a, b) == IF a > b THEN a ELSE b

\* s[a:b] for 0 <= a: silently clipped at the end of the list
Slice(s, a, b) ==
    LET hi == Min(b, Len(s))
    IN  IF a >= hi THEN <<>> ELSE SubSeq(s, a + 1, hi)

\* [0] * n
Zeros(n) == [k \in 1..n |-> 0]

RECURSIVE Pow2(_)
Pow2(k) == IF k = 0 THEN 1 ELSE 2 * Pow2(k - 1)

\* bin(n)[2:] as a list of bits, most significant first (n >= 1)
RECURSIVE Bin(_)
Bin(n) == IF n < 2 THEN <<n>> ELSE Append(Bin(n \div 2), n % 2)

\* int("".join(map(str, bs)), 2) for a non-empty list of bits
RECURSIVE BitsToInt(_)
BitsToInt(bs) ==
    IF Len(bs) = 0 THEN 0
    ELSE 2 * BitsToInt(SubSeq(bs, 1, Len(bs) - 1)) + bs[Len(bs)]

\* the 8 bits of a byte, most significant first: (byte_val >> bit_pos) & 1
ByteBits(v) == [k \in 1..8 |-> (v \div Pow2(8 - k)) % 2]

RECURSIVE Concat(_)
Concat(ss) == IF Len(ss) = 0 THEN <<>> ELSE Head(ss) \o Concat(Tail(ss))

\* all sequences over S of length at most n
SeqsUpTo(S, n) == UNION {[1..k -> S] : k \in 0..n}

(***************************************************************************)
(* Elias.py                                                                *)
(***************************************************************************)
gamma_encode(n) == Zeros(Len(Bin(n)) - 1) \o Bin(n)

delta_encode(n) == gamma_encode(Len(Bin(n))) \o Tail(Bin(n))

\* the while loop of delta_decode_stream: the number of zeros from index on,
\* or -1 when the list ends first (bit_stream[...] raises IndexError)
RECURSIVE zero_count_from(_, _, _)
zero_count_from(bit_stream, index, zc) ==
    IF index + zc >= Len(bit_stream) THEN 0 - 1
    ELSE IF bit_stream[index + zc + 1] = 0
         THEN zero_count_from(bit_stream, index, zc + 1)
         ELSE zc

\* a faulty delta_decode_stream, for C6: the returned index is one too far
delta_decode_stream_next_index_off(bit_stream, index) ==
    LET zero_count == zero_count_from(bit_stream, index, 0)
    IN  IF zero_count < 0
        THEN [exc |-> "IndexError", val |-> 0, idx |-> index]
        ELSE LET index1 == index + zero_count
                 bits_for_length == Slice(bit_stream, index1, index1 + zero_count + 1)
                 length_val == BitsToInt(bits_for_length)
                 index2 == index1 + Len(bits_for_length)
                 remaining_bits == Slice(bit_stream, index2, index2 + length_val - 1)
             IN  IF length_val = 1
                 THEN [exc |-> "none", val |-> 1, idx |-> index2]
                 ELSE [exc |-> "none",
                       val |-> BitsToInt(<<1>> \o remaining_bits),
                       idx |-> index2 + length_val]

\* (decoded_integer, next_index_in_stream), or exc = "IndexError"
delta_decode_stream(bit_stream, index) ==
    LET zero_count == zero_count_from(bit_stream, index, 0)
    IN  IF zero_count < 0
        THEN [exc |-> "IndexError", val |-> 0, idx |-> index]
        ELSE LET index1 == index + zero_count
                 bits_for_length == Slice(bit_stream, index1, index1 + zero_count + 1)
                 length_val == BitsToInt(bits_for_length)
                 index2 == index1 + Len(bits_for_length)
                 remaining_bits == Slice(bit_stream, index2, index2 + length_val - 1)
             IN  IF length_val = 1
                 THEN [exc |-> "none", val |-> 1, idx |-> index2]
                 ELSE [exc |-> "none",
                       val |-> BitsToInt(<<1>> \o remaining_bits),
                       idx |-> index2 + (length_val - 1)]

(***************************************************************************)
(* Encoder.py                                                              *)
(***************************************************************************)
\* a read of data[k]: Python raises IndexError at k >= len(data)
InRange(d, k) == 0 <= k /\ k < Len(d)

\* the inner while loop of find_longest_match from match_length = k on;
\* oob records a read of a byte index outside data
RECURSIVE match_scan(_, _, _, _, _, _)
match_scan(d, search_pos, pos, lookahead_end, lookahead, k) ==
    IF ~(pos + k < lookahead_end)
    THEN [length |-> k, oob |-> FALSE]
    ELSE IF ~InRange(d, search_pos + k) \/ ~InRange(d, pos + k)
    THEN [length |-> k, oob |-> TRUE]
    ELSE IF d[search_pos + k + 1] = d[pos + k + 1] /\ k < lookahead
    THEN match_scan(d, search_pos, pos, lookahead_end, lookahead, k + 1)
    ELSE [length |-> k, oob |-> FALSE]

\* a faulty search loop, for C14: a match as long as the best replaces it
RECURSIVE search_window_last_wins(_, _, _, _, _, _)
search_window_last_wins(d, pos, lookahead_end, lookahead, search_pos, best) ==
    IF search_pos >= pos THEN best
    ELSE LET m == match_scan(d, search_pos, pos, lookahead_end, lookahead, 0)
             nxt == IF m.length >= best.length /\ m.length > 0
                    THEN [offset |-> pos - search_pos, length |-> m.length,
                          oob |-> best.oob \/ m.oob]
                    ELSE [best EXCEPT !.oob = best.oob \/ m.oob]
         IN  search_window_last_wins(d, pos, lookahead_end, lookahead,
                                     search_pos + 1, nxt)

\* the for loop of find_longest_match from search_pos on, with the best so far
RECURSIVE search_window(_, _, _, _, _, _)
search_window(d, pos, lookahead_end, lookahead, search_pos, best) ==
    IF search_pos >= pos THEN best
    ELSE LET m == match_scan(d, search_pos, pos, lookahead_end, lookahead, 0)
             nxt == IF m.length > best.length
                    THEN [offset |-> pos - search_pos, length |-> m.length,
                          oob |-> best.oob \/ m.oob]
                    ELSE [best EXCEPT !.oob = best.oob \/ m.oob]
         IN  search_window(d, pos, lookahead_end, lookahead, search_pos + 1, nxt)

\* a faulty find_longest_match, for C8: the search starts at the start of
\* the buffer, whatever the window size
find_longest_match_cfg_whole_buffer(d, pos, window, lookahead) ==
    LET window_start == 0
        lookahead_end == Min(Len(d), pos + lookahead)
    IN  search_window(d, pos, lookahead_end, lookahead, window_start,
                      [offset |-> 0, length |-> 0, oob |-> FALSE])

\* find_longest_match with the two configuration values as parameters
find_longest_match_cfg(d, pos, window, lookahead) ==
    LET window_start == Max(0, pos - window)
        lookahead_end == Min(Len(d), pos + lookahead)
    IN  search_window(d, pos, lookahead_end, lookahead, window_start,
                      [offset |-> 0, length |-> 0, oob |-> FALSE])

find_longest_match(d, pos) ==
    find_longest_match_cfg(d, pos, WINDOW_SIZE, LOOKAHEAD_SIZE)

\* a faulty encode, for C12: any match of one byte or more is encoded as a
\* match token
encode_any_match(d, pos) ==
    IF pos >= Len(d) THEN [j |-> 0, l |-> 0, bits |-> <<>>]
    ELSE LET m == find_longest_match(d, pos)
         IN  IF m.length >= 1
             THEN LET next_byte_pos == pos + m.length
                      has_next == next_byte_pos < Len(d)
                      byte_val == IF has_next THEN d[next_byte_pos + 1] ELSE 0
                      advance_by == IF has_next THEN m.length + 1 ELSE m.length
                  IN  [j |-> m.offset, l |-> advance_by,
                       bits |-> delta_encode(m.offset) \o delta_encode(m.length)
                                \o ByteBits(byte_val)]
             ELSE [j |-> 0, l |-> 1,
                   bits |-> delta_encode(1) \o delta_encode(1) \o ByteBits(d[pos + 1])]

\* a faulty encode, for C15: a match always advances past a next byte,
\* also when the match ends the data
encode_always_skips_next(d, pos) ==
    IF pos >= Len(d) THEN [j |-> 0, l |-> 0, bits |-> <<>>]
    ELSE LET m == find_longest_match(d, pos)
         IN  IF m.length >= MIN_MATCH_LENGTH
             THEN LET next_byte_pos == pos + m.length
                      has_next == next_byte_pos < Len(d)
                      byte_val == IF has_next THEN d[next_byte_pos + 1] ELSE 0
                  IN  [j |-> m.offset, l |-> m.length + 1,
                       bits |-> delta_encode(m.offset) \o delta_encode(m.length)
                                \o ByteBits(byte_val)]
             ELSE [j |-> 0, l |-> 1,
                   bits |-> delta_encode(1) \o delta_encode(1) \o ByteBits(d[pos + 1])]

\* encode(data, i): (j, l, bits); l is the number of input bytes consumed
encode(d, pos) ==
    IF pos >= Len(d) THEN [j |-> 0, l |-> 0, bits |-> <<>>]
    ELSE LET m == find_longest_match(d, pos)
         IN  IF m.length >= MIN_MATCH_LENGTH
             THEN LET next_byte_pos == pos + m.length
                      has_next == next_byte_pos < Len(d)
                      byte_val == IF has_next THEN d[next_byte_pos + 1] ELSE 0
                      advance_by == IF has_next THEN m.length + 1 ELSE m.length
                  IN  [j |-> m.offset, l |-> advance_by,
                       bits |-> delta_encode(m.offset) \o delta_encode(m.length)
                                \o ByteBits(byte_val)]
             ELSE [j |-> 0, l |-> 1,
                   bits |-> delta_encode(1) \o delta_encode(1) \o ByteBits(d[pos + 1])]

bits_to_bytes(bs) ==
    IF Len(bs) = 0 THEN <<>>
    ELSE LET padding_needed == (8 - (Len(bs) % 8)) % 8
             bits_padded == bs \o Zeros(padding_needed)
         IN  [k \in 1..(Len(bits_padded) \div 8) |->
                 BitsToInt(SubSeq(bits_padded, 8 * (k - 1) + 1, 8 * k))]

(***************************************************************************)
(* Decoder.py                                                              *)
(***************************************************************************)
bytes_to_bits(bytes) == Concat([k \in 1..Len(bytes) |-> ByteBits(bytes[k])])

\* (byte_value, new_bit_index), or exc = "ValueError"
read_byte(bs, index) ==
    IF index + 8 > Len(bs)
    THEN [exc |-> "ValueError", val |-> 0, idx |-> index]
    ELSE [exc |-> "none", val |-> BitsToInt(SubSeq(bs, index + 1, index + 8)),
          idx |-> index + 8]

\* (marker, j, l, byte_val, new_bit_index), or exc = "ValueError"
decode_token(bs, index) ==
    LET failed == [exc |-> "ValueError", marker |-> 0, j |-> 0, l |-> 0,
                   byte_val |-> 0, idx |-> index]
        jd == delta_decode_stream(bs, index)
    IN  IF jd.exc # "none" THEN failed
        ELSE LET ld == delta_decode_stream(bs, jd.idx)
             IN  IF ld.exc # "none" THEN failed
                 ELSE LET rb == read_byte(bs, ld.idx)
                      IN  IF rb.exc # "none" THEN failed
                          ELSE IF jd.val = 1 /\ ld.val = 1
                          THEN [exc |-> "none", marker |-> 0, j |-> 0, l |-> 0,
                                byte_val |-> rb.val, idx |-> rb.idx]
                          ELSE [exc |-> "none", marker |-> 1, j |-> jd.val,
                                l |-> ld.val, byte_val |-> rb.val, idx |-> rb.idx]

\* a faulty copy loop, for C11: the l bytes are taken as one block of the
\* output as it was before the copy
copy_match_block(out, start_pos, l, k) ==
    out \o Slice(out, start_pos, start_pos + l)

\* the copy loop of a match: append l bytes, one at a time, from start_pos on
RECURSIVE copy_match(_, _, _, _)
copy_match(out, start_pos, l, k) ==
    IF k >= l THEN out
    ELSE copy_match(Append(out, out[start_pos + k + 1]), start_pos, l, k + 1)

(***************************************************************************)
(* Files.                                                                  *)
(***************************************************************************)
NoFile == [exists |-> FALSE, bytes |-> <<>>]
File(bytes) == [exists |-> TRUE, bytes |-> bytes]

(***************************************************************************)
(* The parts of the state a specification does not use stay at rest.       *)
(***************************************************************************)
PipeIdle ==
    /\ data = <<>> /\ pc = "idle" /\ i = 0 /\ all_tokens = <<>>
    /\ container = NoFile /\ tampered = FALSE /\ bits = <<>> /\ bit_index = 0
    /\ token_count = 0 /\ token_num = 0 /\ output_data = <<>>
    /\ dec_error = "none" /\ out_file = NoFile /\ verdict = "none"

EliasIdle ==
    /\ e_pc = "idle" /\ e_n = 0 /\ e_stream = <<>> /\ e_index = 0 /\ e_cut = FALSE
    /\ e_res = [exc |-> "unset", val |-> 0, idx |-> 0]

MatchIdle ==
    /\ m_data = <<>> /\ m_i = 0 /\ m_window = 0 /\ m_lookahead = 0
    /\ m_res = [offset |-> 0, length |-> 0, oob |-> FALSE, done |-> FALSE]

\* None, for a node of a tree
None == [isNone |-> TRUE]

HuffIdle ==
    /\ h_freqs = <<>> /\ h_pc = "idle" /\ h_tree = None /\ h_codes = <<>>
    /\ h_bits = <<>> /\ h_tree2 = None

PipeOnly == UNCHANGED <<eliasVars, matchVars, huffVars>>

(***************************************************************************)
(* Main.py: Encoder.encoder(input), Decoder.decoder(output), compare.      *)
(***************************************************************************)
PipeInit ==
    /\ data \in SeqsUpTo(ByteVals, MaxLen)
    /\ pc = "enc_loop" /\ i = 0 /\ all_tokens = <<>>
    /\ container = NoFile /\ tampered = FALSE /\ bits = <<>> /\ bit_index = 0
    /\ token_count = 0 /\ token_num = 0 /\ output_data = <<>>
    /\ dec_error = "none" /\ out_file = NoFile /\ verdict = "none"

\* Encoder.encoder, one turn of "while i < len(data)"
EncoderToken ==
    /\ PipeOnly
    /\ pc = "enc_loop"
    /\ i < Len(data)
    /\ LET t == encode(data, i)
       IN  /\ all_tokens' = Append(all_tokens, t.bits)
           /\ i' = i + t.l
    /\ UNCHANGED <<data, pc, container, tampered, bits, bit_index, token_count,
                   token_num, output_data, dec_error, out_file, verdict>>

\* the bit stream encoder() builds once the loop is over
encoder_bits(tokens) == delta_encode(Len(tokens) + 1) \o Concat(tokens)

\* Encoder.encoder after the loop: build the stream, write the file, then
\* print the statistics; compressed_size / original_size raises
\* ZeroDivisionError for an empty input, after the file was written
EncoderFinish ==
    /\ PipeOnly
    /\ pc = "enc_loop"
    /\ i >= Len(data)
    /\ container' = File(bits_to_bytes(encoder_bits(all_tokens)))
    /\ pc' = IF Len(data) = 0 THEN "enc_raised" ELSE "encoded"
    /\ UNCHANGED <<data, i, all_tokens, tampered, bits, bit_index, token_count,
                   token_num, output_data, dec_error, out_file, verdict>>

\* whether the integer at index stays within the model's bound (an altered
\* stream can hold arbitrarily large integers)
DeltaBounded(bs, index) ==
    /\ zero_count_from(bs, index, 0) <= 4
    /\ delta_decode_stream(bs, index).val <= MaxVal

TokenBounded(bs, index) ==
    /\ DeltaBounded(bs, index)
    /\ LET jd == delta_decode_stream(bs, index)
       IN  jd.exc = "none" => DeltaBounded(bs, jd.idx)

\* Decoder.decoder up to the token loop: read the file, read the token count;
\* an IndexError of delta_decode_stream is not caught here
DecoderStart ==
    /\ PipeOnly
    /\ pc = "encoded"
    /\ LET bs == bytes_to_bits(container.bytes)
           tc == delta_decode_stream(bs, 0)
       IN  /\ DeltaBounded(bs, 0)
           /\ bits' = bs
           /\ IF tc.exc # "none"
              THEN /\ pc' = "dec_raised"
                   /\ UNCHANGED <<bit_index, token_count>>
              ELSE /\ pc' = "dec_loop"
                   /\ bit_index' = tc.idx
                   /\ token_count' = tc.val - 1
    /\ UNCHANGED <<data, i, all_tokens, container, tampered, token_num,
                   output_data, dec_error, out_file, verdict>>

\* Decoder.decoder, one turn of "for token_num in range(token_count)"
DecoderToken ==
    /\ PipeOnly
    /\ pc = "dec_loop"
    /\ dec_error = "none"
    /\ token_num < token_count
    /\ TokenBounded(bits, bit_index)
    /\ LET t == decode_token(bits, bit_index)
       IN  IF t.exc # "none"
           THEN /\ dec_error' = "token"
                /\ UNCHANGED <<bit_index, token_num, output_data>>
           ELSE IF t.marker = 1 /\ t.j > Len(output_data)
           THEN /\ dec_error' = "offset"
                /\ bit_index' = t.idx
                /\ UNCHANGED <<token_num, output_data>>
           ELSE /\ bit_index' = t.idx
                /\ token_num' = token_num + 1
                /\ dec_error' = "none"
                /\ output_data' =
                      IF t.marker = 1
                      THEN LET copied == copy_match(output_data,
                                             Len(output_data) - t.j, t.l, 0)
                           IN  IF ~(t.byte_val = 0 /\ token_num = token_count - 1)
                               THEN Append(copied, t.byte_val)
                               ELSE copied
                      ELSE Append(output_data, t.byte_val)
    /\ UNCHANGED <<data, pc, i, all_tokens, container, tampered, bits,
                   token_count, out_file, verdict>>

\* Decoder.decoder after the loop, left normally or by break: write the file
DecoderWrite ==
    /\ PipeOnly
    /\ pc = "dec_loop"
    /\ (token_num >= token_count \/ dec_error # "none")
    /\ out_file' = File(output_data)
    /\ pc' = "decoded"
    /\ UNCHANGED <<data, i, all_tokens, container, tampered, bits, bit_index,
                   token_count, token_num, output_data, dec_error, verdict>>

\* Main.files_are_equal(input_path, reconstructed_path)
files_are_equal(a, b) ==
    IF Len(a.bytes) # Len(b.bytes) THEN FALSE ELSE a.bytes = b.bytes

Verify ==
    /\ PipeOnly
    /\ pc = "decoded"
    /\ verdict' = IF files_are_equal(File(data), out_file)
                  THEN "SUCCESS" ELSE "FAILURE"
    /\ pc' = "done"
    /\ UNCHANGED <<data, i, all_tokens, container, tampered, bits, bit_index,
                   token_count, token_num, output_data, dec_error, out_file>>

Init == PipeInit /\ EliasIdle /\ MatchIdle /\ HuffIdle

Next ==
    \/ EncoderToken
    \/ EncoderFinish
    \/ DecoderStart
    \/ DecoderToken
    \/ DecoderWrite
    \/ Verify

Spec == Init /\ [][Next]_vars

(***************************************************************************)
(* The compressed file altered between the encoder and the decoder: cut    *)
(* short by whole bytes, or one bit flipped.                               *)
(***************************************************************************)
Truncated(bytes, k) == SubSeq(bytes, 1, Len(bytes) - k)

FlipBit(bytes, p) ==
    LET bs == bytes_to_bits(bytes)
    IN  bits_to_bytes([bs EXCEPT ![p] = 1 - bs[p]])

Tamper ==
    /\ PipeOnly
    /\ pc = "encoded"
    /\ ~tampered
    /\ \/ \E k \in 1..Len(container.bytes) :
             container' = File(Truncated(container.bytes, k))
       \/ \E p \in 1..(8 * Len(container.bytes)) :
             container' = File(FlipBit(container.bytes, p))
    /\ tampered' = TRUE
    /\ UNCHANGED <<data, pc, i, all_tokens, bits, bit_index, token_count,
                   token_num, output_data, dec_error, out_file, verdict>>

NextCorrupt == Next \/ Tamper

SpecCorrupt == Init /\ [][NextCorrupt]_vars

(***************************************************************************)
(* Claims about the pipeline.                                              *)
(***************************************************************************)
\* C1: round trip: when the encoder and then the decoder have run on a
\* buffer, the decompressed file holds exactly the buffer.
C1_RoundTrip ==
    (pc = "done" /\ ~tampered) => out_file = File(data)

\* C2: mode-selection guarantee: the encoder's output is at most one byte
\* longer than its input.
C2_OutputAtMostOneByteLonger ==
    (container.exists /\ ~tampered) => Len(container.bytes) <= Len(data) + 1

\* C3: a decoder input whose first byte is neither 0 nor 1 is rejected:
\* the decoder does not return an output.
C3_UnknownModeRejected ==
    (Len(container.bytes) > 0 /\ container.bytes[1] \notin {0, 1})
        => pc \notin {"decoded", "done"}

\* C4: a decode that met a corrupt or truncated token (an offset beyond the
\* output produced so far, or the stream ending inside a token) emits no
\* output file.
C4_NoPartialOutput ==
    dec_error # "none" => ~out_file.exists

\* C5: encoding the empty buffer raises no error, and what it wrote decodes
\* to the empty buffer.
C5_EmptyBufferEncodes ==
    data = <<>> => /\ pc # "enc_raised"
                   /\ (pc = "done" => out_file = File(<<>>))

(***************************************************************************)
(* Elias.py on its own: an integer is delta-encoded into a stream after    *)
(* some earlier bits and before some later ones, the stream is possibly    *)
(* cut short inside the code, and the code is decoded at its start.        *)
(***************************************************************************)
ElOnly == UNCHANGED <<pipeVars, matchVars, huffVars>>

Bit == {0, 1}

EliasInit ==
    /\ e_pc = "start"
    /\ e_n \in 1..MaxN
    /\ e_stream \in SeqsUpTo(Bit, MaxPad)
    /\ e_index = Len(e_stream)
    /\ e_cut = FALSE
    /\ e_res = [exc |-> "unset", val |-> 0, idx |-> 0]

\* bits.extend(delta_encode(n)), then whatever the caller writes next
EliasWrite ==
    /\ ElOnly
    /\ e_pc = "start"
    /\ \E suffix \in SeqsUpTo(Bit, MaxPad) :
          e_stream' = e_stream \o delta_encode(e_n) \o suffix
    /\ e_pc' = "written"
    /\ UNCHANGED <<e_n, e_index, e_cut, e_res>>

\* the stream ends somewhere inside the code
EliasTruncate ==
    /\ ElOnly
    /\ e_pc = "written"
    /\ ~e_cut
    /\ \E len \in e_index..(e_index + Len(delta_encode(e_n)) - 1) :
          e_stream' = SubSeq(e_stream, 1, len)
    /\ e_cut' = TRUE
    /\ UNCHANGED <<e_pc, e_n, e_index, e_res>>

EliasDecode ==
    /\ ElOnly
    /\ e_pc = "written"
    /\ e_res' = delta_decode_stream(e_stream, e_index)
    /\ e_pc' = "decoded"
    /\ UNCHANGED <<e_n, e_stream, e_index, e_cut>>

InitElias == PipeIdle /\ EliasInit /\ MatchIdle /\ HuffIdle

NextElias == EliasWrite \/ EliasTruncate \/ EliasDecode

SpecElias == InitElias /\ [][NextElias]_vars

\* C6: Elias delta round trip: decoding at the start of delta_encode(n)
\* gives n and the index just after the code, whatever bits come before and
\* after the code.
C6_DeltaRoundTrip ==
    (e_pc = "decoded" /\ ~e_cut) =>
        e_res = [exc |-> "none", val |-> e_n,
                 idx |-> e_index + Len(delta_encode(e_n))]

\* a code of several suffix bits decoded in the middle of a stream
C6_Witness ==
    /\ e_pc = "decoded" /\ ~e_cut
    /\ e_n = MaxN
    /\ e_index = MaxPad
    /\ Len(e_stream) = e_res.idx + MaxPad
    /\ e_res.val = MaxN

\* C7: decoding a code the stream ends inside of reports an error; no value
\* is returned from fewer bits than the code has.
C7_TruncatedDeltaFails ==
    (e_pc = "decoded" /\ e_cut) => e_res.exc # "none"

(***************************************************************************)
(* Encoder.find_longest_match on its own, at every position of a buffer.   *)
(* WINDOW_SIZE and LOOKAHEAD_SIZE are module-level configuration; besides  *)
(* the shipped values the search is run with values small enough for the   *)
(* window and the lookahead to limit the match on a short buffer.          *)
(***************************************************************************)
MatchOnly == UNCHANGED <<pipeVars, eliasVars, huffVars>>

MatchInit ==
    /\ m_data \in SeqsUpTo(ByteVals, MaxLen)
    /\ m_i = 0
    /\ m_window \in {WINDOW_SIZE} \cup 1..MaxCfg
    /\ m_lookahead \in {LOOKAHEAD_SIZE} \cup 1..MaxCfg
    /\ m_res = [offset |-> 0, length |-> 0, oob |-> FALSE, done |-> FALSE]

FindMatch ==
    /\ MatchOnly
    /\ ~m_res.done
    /\ \E pos \in 0..Len(m_data) :
          /\ m_i' = pos
          /\ m_res' = LET r == find_longest_match_cfg(m_data, pos, m_window,
                                                      m_lookahead)
                      IN  [offset |-> r.offset, length |-> r.length,
                           oob |-> r.oob, done |-> TRUE]
    /\ UNCHANGED <<m_data, m_window, m_lookahead>>

InitMatch == PipeIdle /\ EliasIdle /\ MatchInit /\ HuffIdle

NextMatch == FindMatch

SpecMatch == InitMatch /\ [][NextMatch]_vars

\* C8: match-finder bound: the returned length is at most the bytes left
\* and at most the maximum match length, the returned offset is at most the
\* position and at most the window size, and no byte outside the buffer is
\* read.
C8_MatchBound ==
    m_res.done =>
        /\ m_res.length <= Min(Len(m_data) - m_i, m_lookahead)
        /\ m_res.offset <= Min(m_i, m_window)
        /\ ~m_res.oob

\* a match cut at the maximum match length, found at the far end of a
\* window shorter than the position
C8_Witness ==
    /\ m_res.done
    /\ m_res.length = m_lookahead
    /\ m_res.length < Len(m_data) - m_i
    /\ m_res.offset = m_window
    /\ m_window < m_i

(***************************************************************************)
(* Huffman.py                                                              *)
(***************************************************************************)
\* byte_val of an internal node (None in the code)
NoByte == 0 - 1

\* HuffmanNode(byte_val, freq), left and right set afterwards
HuffmanNode(byte_val, freq, left, right) ==
    [byte_val |-> byte_val, freq |-> freq, left |-> left, right |-> right]

\* what heappop may return: a node no other node of the heap is less than
\* (HuffmanNode.__lt__ compares freq only, so equal freqs leave the choice
\* to the heap's layout; every choice is kept)
Smallest(heap) == {n \in heap : \A o \in heap : ~(o.freq < n.freq)}

\* the while loop of build_huffman_tree_from_freqs: every tree it can end with
RECURSIVE merge_heap(_)
merge_heap(heap) ==
    IF Cardinality(heap) <= 1 THEN heap
    ELSE UNION { UNION { merge_heap(((heap \ {left}) \ {right}) \cup
                             {HuffmanNode(NoByte, left.freq + right.freq,
                                          left, right)})
                         : right \in Smallest(heap \ {left}) }
                 : left \in Smallest(heap) }

\* the trees build_huffman_tree_from_freqs can return for a table ({None}
\* for an empty one)
build_huffman_tree_from_freqs(freq_table) ==
    LET heap == {HuffmanNode(freq_table[k][1], freq_table[k][2], None, None)
                    : k \in 1..Len(freq_table)}
    IN  IF Len(freq_table) = 0 THEN {None}
        ELSE IF Cardinality(heap) = 1
        THEN {HuffmanNode(NoByte, n.freq, n, None) : n \in heap}
        ELSE merge_heap(heap)

\* traverse() of generate_huffman_codes: the (byte, code) assignments in the
\* order they are made
RECURSIVE codes_traverse(_, _)
codes_traverse(node, current_bits) ==
    IF node = None THEN <<>>
    ELSE IF node.byte_val # NoByte THEN <<<<node.byte_val, current_bits>>>>
    ELSE codes_traverse(node.left, Append(current_bits, 0))
         \o codes_traverse(node.right, Append(current_bits, 1))

\* the list after the assignments: a later assignment to a byte replaces an
\* earlier one, a byte never assigned keeps []
CodesAfter(assigned) ==
    [b \in 0..255 |->
        LET at == {k \in 1..Len(assigned) : assigned[k][1] = b}
        IN  IF at = {} THEN <<>>
            ELSE assigned[CHOOSE k \in at : \A o \in at : o <= k][2]]

\* a faulty generate_huffman_codes, for C9: 0 is appended on the way to
\* either child
RECURSIVE codes_traverse_same_bit(_, _)
codes_traverse_same_bit(node, current_bits) ==
    IF node = None THEN <<>>
    ELSE IF node.byte_val # NoByte THEN <<<<node.byte_val, current_bits>>>>
    ELSE codes_traverse_same_bit(node.left, Append(current_bits, 0))
         \o codes_traverse_same_bit(node.right, Append(current_bits, 0))

generate_huffman_codes_same_bit(root) ==
    IF root = None THEN CodesAfter(<<>>)
    ELSE IF root.left = None /\ root.right = None
    THEN IF root.byte_val # NoByte
         THEN CodesAfter(<<<<root.byte_val, <<0>>>>>>)
         ELSE CodesAfter(<<>>)
    ELSE CodesAfter(codes_traverse_same_bit(root, <<>>))

\* the 256 codes, index = byte value
generate_huffman_codes(root) ==
    IF root = None THEN CodesAfter(<<>>)
    ELSE IF root.left = None /\ root.right = None
    THEN IF root.byte_val # NoByte
         THEN CodesAfter(<<<<root.byte_val, <<0>>>>>>)
         ELSE CodesAfter(<<>>)
    ELSE CodesAfter(codes_traverse(root, <<>>))

\* a faulty encode_tree_structure, for C10: the right child is written
\* before the left
RECURSIVE encode_tree_structure_right_first(_)
encode_tree_structure_right_first(n) ==
    IF n = None THEN <<>>
    ELSE IF n.left = None /\ n.right = None
    THEN <<1>> \o ByteBits(n.byte_val)
    ELSE <<0>> \o encode_tree_structure_right_first(n.right)
              \o encode_tree_structure_right_first(n.left)

\* internal node: 0, then both children; leaf: 1 and the 8 bits of its byte
RECURSIVE encode_tree_structure(_)
encode_tree_structure(n) ==
    IF n = None THEN <<>>
    ELSE IF n.left = None /\ n.right = None
    THEN <<1>> \o ByteBits(n.byte_val)
    ELSE <<0>> \o encode_tree_structure(n.left) \o encode_tree_structure(n.right)

\* (node, new_index); exc = "IndexError" when a leaf's byte runs past the end
RECURSIVE decode_tree_structure(_, _)
decode_tree_structure(bit_stream, index) ==
    IF index >= Len(bit_stream)
    THEN [exc |-> "none", node |-> None, idx |-> index]
    ELSE IF bit_stream[index + 1] = 1
    THEN IF index + 9 > Len(bit_stream)
         THEN [exc |-> "IndexError", node |-> None, idx |-> index]
         ELSE [exc |-> "none",
               node |-> HuffmanNode(BitsToInt(SubSeq(bit_stream, index + 2,
                                                     index + 9)), 0, None, None),
               idx |-> index + 9]
    ELSE LET l == decode_tree_structure(bit_stream, index + 1)
         IN  IF l.exc # "none" THEN l
             ELSE LET r == decode_tree_structure(bit_stream, l.idx)
                  IN  IF r.exc # "none" THEN r
                      ELSE [exc |-> "none",
                            node |-> HuffmanNode(NoByte, 0, l.node, r.node),
                            idx |-> r.idx]

(***************************************************************************)
(* Huffman.py on its own: a tree is built from a frequency table, its      *)
(* codes are generated, the tree is serialized and read back.              *)
(***************************************************************************)
HuffOnly == UNCHANGED <<pipeVars, eliasVars, matchVars>>

\* byte values the frequency tables are drawn from
HuffBytes == {0, 65, 66, 255}

\* a dict: no byte value twice
FreqTables ==
    {t \in SeqsUpTo(HuffBytes \X (0..MaxFreq), MaxSyms) :
        \A a, b \in 1..Len(t) : a # b => t[a][1] # t[b][1]}

HuffInit ==
    /\ h_freqs \in FreqTables
    /\ h_pc = "start"
    /\ h_tree = None /\ h_codes = <<>> /\ h_bits = <<>> /\ h_tree2 = None

Build ==
    /\ HuffOnly
    /\ h_pc = "start"
    /\ h_tree' \in build_huffman_tree_from_freqs(h_freqs)
    /\ h_pc' = "built"
    /\ UNCHANGED <<h_freqs, h_codes, h_bits, h_tree2>>

GenerateCodes ==
    /\ HuffOnly
    /\ h_pc = "built"
    /\ h_codes' = generate_huffman_codes(h_tree)
    /\ h_pc' = "coded"
    /\ UNCHANGED <<h_freqs, h_tree, h_bits, h_tree2>>

Serialize ==
    /\ HuffOnly
    /\ h_pc = "coded"
    /\ h_bits' = encode_tree_structure(h_tree)
    /\ h_pc' = "serialized"
    /\ UNCHANGED <<h_freqs, h_tree, h_codes, h_tree2>>

Deserialize ==
    /\ HuffOnly
    /\ h_pc = "serialized"
    /\ LET r == decode_tree_structure(h_bits, 0)
       IN  /\ h_tree2' = r.node
           /\ h_pc' = IF r.exc # "none" THEN "deser_raised" ELSE "deserialized"
    /\ UNCHANGED <<h_freqs, h_tree, h_codes, h_bits>>

InitHuffman == PipeIdle /\ EliasIdle /\ MatchIdle /\ HuffInit

NextHuffman == Build \/ GenerateCodes \/ Serialize \/ Deserialize

SpecHuffman == InitHuffman /\ [][NextHuffman]_vars

IsPrefix(a, b) == Len(a) <= Len(b) /\ SubSeq(b, 1, Len(a)) = a

TableBytes == {h_freqs[k][1] : k \in 1..Len(h_freqs)}

\* C9: the codes of a table of two or more byte values are a prefix code:
\* every byte of the table has a non-empty code, and no byte's code is a
\* prefix of, or equal to, another byte's code.
C9_PrefixCode ==
    (h_pc \in {"coded", "serialized", "deserialized"} /\ Len(h_freqs) >= 2) =>
        /\ \A b \in TableBytes : h_codes[b] # <<>>
        /\ \A a, b \in TableBytes : a # b => ~IsPrefix(h_codes[a], h_codes[b])

\* codes of different lengths, from a table whose two smallest weights tie
C9_Witness ==
    /\ h_pc = "coded"
    /\ Len(h_freqs) = 3
    /\ h_freqs[1][2] = h_freqs[2][2]
    /\ h_freqs[2][2] = h_freqs[3][2]
    /\ \E a, b \in TableBytes : Len(h_codes[a]) = 1 /\ Len(h_codes[b]) = 2

\* C10: tree round trip: the tree read back from the serialization of a
\* tree built from a non-empty table generates the same codes as the tree.
C10_TreeRoundTrip ==
    Len(h_freqs) >= 1 =>
        /\ h_pc # "deser_raised"
        /\ h_pc = "deserialized" => generate_huffman_codes(h_tree2) = h_codes

\* the round trip of the tree of a table with exactly one byte value
C10_Witness ==
    /\ h_pc = "deserialized"
    /\ Len(h_freqs) = 1
    /\ h_tree2 # None
    /\ h_tree2 # h_tree
    /\ h_codes[h_freqs[1][1]] = <<0>>

(***************************************************************************)
(* Claims about the tokens of the pipeline.                                *)
(***************************************************************************)
\* n >= 4 copies of one byte value, n - 1 within the maximum match length
IsRun(d) ==
    /\ Len(d) >= 4
    /\ Len(d) <= LOOKAHEAD_SIZE + 1
    /\ \A k \in 1..Len(d) : d[k] = d[1]

\* C11: a buffer of n copies of one byte is encoded as exactly two tokens,
\* the literal of that byte and the match of offset 1 and length n - 1, and
\* the decoder, copying the overlapping match byte by byte, gives the
\* buffer back.
C11_RunOfOneByte ==
    (IsRun(data) /\ ~tampered) =>
        /\ pc # "enc_loop" =>
              all_tokens =
                 << delta_encode(1) \o delta_encode(1) \o ByteBits(data[1]),
                    delta_encode(1) \o delta_encode(Len(data) - 1)
                       \o ByteBits(0) >>
        /\ pc \in {"decoded", "done"} => out_file = File(data)
        /\ pc = "done" => verdict = "SUCCESS"

\* the run of five bytes, decoded from a literal and a match of length 4
C11_Witness ==
    /\ pc = "done"
    /\ IsRun(data) /\ Len(data) = 5
    /\ token_num = 2
    /\ out_file.bytes = data

\* the token the encoder appends in a step, read the way the decoder reads it
NewToken == decode_token(all_tokens'[Len(all_tokens')], 0)

\* what holds of a token appended at position i that moves the position by
\* adv: a literal moves it by 1; a match moves it by its length, plus 1 when
\* a next byte follows, has a length of at least MIN_MATCH_LENGTH and an
\* offset from 1 to i
ValidToken(t, adv) ==
    /\ t.exc = "none"
    /\ t.marker = 0 => adv = 1
    /\ t.marker = 1 =>
          /\ t.l >= MIN_MATCH_LENGTH
          /\ adv \in {t.l, t.l + 1}
          /\ 1 <= t.j /\ t.j <= i
    /\ adv # 1 => t.marker = 1

\* C12: token validity: every match token the encoder emits at position p
\* has a length of at least 3 and an offset from 1 to p and is read back as a
\* match, every literal is read back as a literal, and the decoder replaying
\* the encoder's tokens never meets an offset beyond the bytes it produced.
C12_TokenValidity ==
    /\ [][Len(all_tokens') = Len(all_tokens) + 1 => ValidToken(NewToken, i' - i)]_vars
    /\ [](~tampered => dec_error = "none")
    /\ [][(~tampered /\ token_num' = token_num + 1) =>
             LET t == decode_token(bits, bit_index)
             IN  t.marker = 1 => t.j <= Len(output_data)]_vars

\* a match whose offset is the whole of what precedes it, replayed by the
\* decoder
C12_Witness ==
    /\ pc = "done"
    /\ ~tampered
    /\ Len(data) = 5
    /\ Len(all_tokens) = 3
    /\ LET t == decode_token(all_tokens[3], 0)
       IN  t.marker = 1 /\ t.j = 2 /\ t.l = 3
    /\ dec_error = "none"

(***************************************************************************)
(* Claims about the shape of the tree.                                     *)
(***************************************************************************)
\* a full binary tree: a leaf holds one byte value, an internal node holds
\* none and has two children, each a full binary tree
RECURSIVE IsFullTree(_)
IsFullTree(n) ==
    /\ n # None
    /\ IF n.left = None /\ n.right = None
       THEN n.byte_val \in 0..255
       ELSE /\ n.byte_val = NoByte
            /\ n.left # None /\ n.right # None
            /\ IsFullTree(n.left) /\ IsFullTree(n.right)

\* C13: every tree built from a non-empty frequency table is a full binary
\* tree: no node has exactly one child, a table of one byte value included.
C13_FullBinaryTree ==
    (h_pc # "start" /\ Len(h_freqs) >= 1) => IsFullTree(h_tree)

(***************************************************************************)
(* Claims about the choice among matches of equal length.                  *)
(***************************************************************************)
\* the length of the match at position m_i that starts at s in the window
MatchLengthAt(s) ==
    match_scan(m_data, s, m_i, Min(Len(m_data), m_i + m_lookahead),
               m_lookahead, 0).length

\* the starts the search looks at
WindowStarts == Max(0, m_i - m_window)..(m_i - 1)

\* the offsets of the starts whose match has the returned length
CandidateOffsets ==
    {m_i - s : s \in {c \in WindowStarts : MatchLengthAt(c) = m_res.length}}

\* C14, as claimed: among several starts giving a match of the returned
\* length, the nearest one, of the smallest offset, is returned.
C14_NearestOnTie ==
    (m_res.done /\ m_res.length > 0) =>
        /\ m_res.offset \in CandidateOffsets
        /\ \A o \in CandidateOffsets : m_res.offset <= o

\* C14, amended: the returned length is the longest of the window, and
\* among several starts giving it, the farthest one, of the largest offset,
\* is returned; with no match at all the result is (0, 0).
C14_FarthestOnTie ==
    m_res.done =>
        /\ \A s \in WindowStarts : MatchLengthAt(s) <= m_res.length
        /\ m_res.length > 0 =>
              /\ m_res.offset \in CandidateOffsets
              /\ \A o \in CandidateOffsets : o <= m_res.offset
        /\ m_res.length = 0 => m_res.offset = 0

\* three starts giving the same length, the farthest returned
C14_Witness ==
    /\ m_res.done
    /\ m_res.length = 2
    /\ Cardinality(CandidateOffsets) = 3
    /\ m_res.offset = 3

(***************************************************************************)
(* The encoder keeps running: Encoder.encoder is one sequential function,  *)
(* so a turn of its loop that can be taken is taken.  This is weak         *)
(* fairness of EncoderStep, WF_vars(EncoderStep), with ENABLED written     *)
(* out: a step of the encoder is possible exactly while pc = "enc_loop",   *)
(* where one of the two guards i < Len(data), i >= Len(data) holds and the *)
(* step changes all_tokens or pc.                                          *)
(***************************************************************************)
EncoderStep == EncoderToken \/ EncoderFinish

SpecLive ==
    /\ Init
    /\ [][Next]_vars
    /\ ([]<>(pc # "enc_loop") \/ []<><<EncoderStep>>_vars)

\* the token count the header of the compressed file holds
HeaderTokenCount ==
    delta_decode_stream(bytes_to_bits(container.bytes), 0).val - 1

====
